---- MODULE Spec2Model ----
(***************************************************************************)
(* Model of the video ingestion and transcoding pipeline of the            *)
(* shna-framework StreamingService                                         *)
(* (src/packages/core/src/streaming/StreamingService.ts).                  *)
(*                                                                         *)
(* The service runs on one JavaScript event loop: a handler runs without   *)
(* interruption until it awaits, so every action below is one synchronous  *)
(* run of code between two suspension points (an await on the file system  *)
(* or on the ffmpeg child process).                                        *)
(***************************************************************************)
EXTENDS Integers, Sequences, FiniteSets, TLC

(* ------------------------------ bounds -------------------------------- *)
\* number of uploads accepted in one behaviour of Spec
MaxVideos == 2
\* number of uploads of the burst of BurstSpec
MaxBurst == 3
\* number of DELETE requests issued in one behaviour
MaxDeletes == 2
\* number of uploads accepted in one behaviour of ReadSpec
MaxReadVideos == 1
\* number of uploads accepted in one behaviour of UploadSpec
MaxUploadVideos == 2
\* number of records in the registry GET /videos is applied to in ListSpec
MaxListed == 3
\* largest page and largest limit asked for in ListSpec
MaxPage == 2
MaxLimit == 2
\* number of uploads accepted in one behaviour of RecordSpec
MaxRecordVideos == 1
\* number of ids handed out in one behaviour of SameIdSpec
MaxSameIdVideos == 1
\* number of uploads that are given the same id in SameIdSpec
MaxSameId == 2
\* number of uploads accepted in one behaviour of ManifestSpec
MaxManifestVideos == 1
\* number of quality names in a configuration of ManifestSpec
MaxQualities == 3

(* ------------------------- program constants -------------------------- *)
\* streaming.transcoding.concurrent of the default configuration
Concurrent == 2
\* streaming.qualities of the default configuration, in configured order
Qualities == <<"720p", "480p", "360p">>

Ids == 1..(IF MaxBurst > MaxVideos THEN MaxBurst ELSE MaxVideos)
Undefined == "undefined"
Set == "set"

VARIABLES
  hlsEnabled,   \* this.config.formats?.includes("hls")
  qualities,    \* this.config.qualities || ["720p", "480p", "360p"]
  resp,         \* the answer of the last request served other than DELETE
  listIn,       \* Array.from(this.videos.values()) as GET /videos finds it
  nextId,       \* number of ids uuidv4() has handed out to the upload handler
  videos,       \* keys of the Map this.videos
  obj,          \* the Video object created for each id (the Map's value)
  statusLog,    \* every value assigned to obj[id].status, in order
  uploadResp,   \* status field of the 201 answer of the upload of each id
  pc,           \* position of processVideo(id)
  calls,        \* the calls processVideo(id) has started, in order
  failedAt,     \* the call of processVideo(id) that failed, if any
  escaped,      \* ids whose job threw outside its promise chain
  crashed,      \* the process was ended by an uncaught exception
  original,     \* the uploaded file videosPath/<filename> exists
  thumbFile,    \* videosPath/<id>-thumbnail.jpg exists
  chunksDir,    \* chunksPath/<id> exists
  encoded,      \* the <quality>.m3u8 renditions present in chunksPath/<id>
  playlist,     \* generateMasterPlaylist has written chunksPath/<id>/playlist.m3u8
  delPc,        \* position of the DELETE handler working on each id
  delResp,      \* the answers of the DELETE requests on each id, in order
  nDeletes      \* number of DELETE requests issued so far

vars == <<hlsEnabled, qualities, resp, listIn, nextId, videos, obj, statusLog, uploadResp, pc, calls, failedAt,
          escaped, crashed, original, thumbFile, chunksDir, encoded, playlist,
          delPc, delResp, nDeletes>>

cfgVars == <<hlsEnabled, qualities>>
ioVars == <<resp, listIn>>
jobVars == <<pc, calls, failedAt, escaped, crashed>>
fileVars == <<original, thumbFile, chunksDir, encoded, playlist>>
delVars == <<delPc, delResp, nDeletes>>

\* the quality names of the configuration
QualitySet == {qualities[i] : i \in 1..Len(qualities)}
\* what an aborted ffmpeg run leaves of the renditions: none, some, or all
PartialOutputs ==
  {{}, QualitySet} \cup (IF qualities = << >> THEN {} ELSE {{qualities[1]}})

\* no request answered yet
NoResp == [op |-> "none", id |-> 0, code |-> 0, seen |-> "none", served |-> << >>]

(* --------------------------- the Video type --------------------------- *)
\* the number of times x occurs in s
Count(s, x) == Cardinality({k \in 1..Len(s) : s[k] = x})

\* a query parameter or form field that passes if (x): present and not the
\* empty string
Truthy(x) == x /= Undefined /\ x /= ""

\* new Date() read by the code of a record whose last stamp is t. Stamps are
\* modelled by the order in which the clock is read: a later reading is larger.
Now(t) == t + 1

NoVideo ==
  [id |-> 0, title |-> Undefined, description |-> Undefined, userId |-> Undefined,
   filename |-> Undefined, size |-> 0,
   status |-> "none", duration |-> Undefined, streamingUrls |-> Undefined,
   thumbnailUrl |-> Undefined, createdAt |-> 0, updatedAt |-> 0]

\* the form of an upload without title, description or authenticated user
PlainForm ==
  [title |-> Undefined, description |-> Undefined, user |-> Undefined,
   originalname |-> "clip.mp4", size |-> 1]

\* the object literal built by the upload handler for the id uuidv4() returned
\* and the fields of the request; filename is the name multer stored the file
\* under
NewVideo(id, form) ==
  [id |-> id,
   title |-> IF Truthy(form.title) THEN form.title ELSE form.originalname,
   description |-> form.description,
   userId |-> IF Truthy(form.user) THEN form.user ELSE "anonymous",
   filename |-> [k |-> "original", n |-> id],
   size |-> form.size,
   status |-> "uploading", duration |-> Undefined, streamingUrls |-> Undefined,
   thumbnailUrl |-> Undefined, createdAt |-> Now(0), updatedAt |-> Now(0)]

\* the service after construction, for any configuration
Start ==
  /\ hlsEnabled \in BOOLEAN
  /\ resp = NoResp
  /\ nextId = 0
  /\ videos = {}
  /\ obj = [i \in Ids |-> NoVideo]
  /\ statusLog = [i \in Ids |-> << >>]
  /\ uploadResp = [i \in Ids |-> "none"]
  /\ pc = [i \in Ids |-> "idle"]
  /\ calls = [i \in Ids |-> << >>]
  /\ failedAt = [i \in Ids |-> "none"]
  /\ escaped = {}
  /\ crashed = FALSE
  /\ original = [i \in Ids |-> FALSE]
  /\ thumbFile = [i \in Ids |-> FALSE]
  /\ chunksDir = [i \in Ids |-> FALSE]
  /\ encoded = [i \in Ids |-> {}]
  /\ playlist = [i \in Ids |-> FALSE]
  /\ delPc = [i \in Ids |-> "idle"]
  /\ delResp = [i \in Ids |-> << >>]
  /\ nDeletes = 0

\* the service after construction with the default qualities
Init ==
  /\ Start
  /\ qualities = Qualities
  /\ listIn = << >>

(* ------------------------------ upload -------------------------------- *)
\* processVideo up to its first await: the status update and the start of
\* fs.ensureDir(outputDir)
ProcessVideoStart(v) == [v EXCEPT !.status = "processing", !.updatedAt = Now(@)]

\* POST /upload with an accepted file and the fields of form. multer has
\* stored the file, the handler builds the record, stores it, calls
\* processVideo(video.id), which runs up to its first await, and then answers
\* 201 with video.status read from the same object.
UploadAs(form, limit) ==
  /\ ~crashed
  /\ nextId < limit
  /\ LET id == nextId + 1
         v == ProcessVideoStart(NewVideo(id, form))
     IN /\ nextId' = id
        /\ original' = [original EXCEPT ![id] = TRUE]
        /\ videos' = videos \cup {id}
        /\ obj' = [obj EXCEPT ![id] = v]
        /\ statusLog' = [statusLog EXCEPT ![id] = <<NewVideo(id, form).status, v.status>>]
        /\ pc' = [pc EXCEPT ![id] = "ensureDir"]
        /\ calls' = [calls EXCEPT ![id] = <<"ensureDir">>]
        /\ uploadResp' = [uploadResp EXCEPT ![id] = v.status]
  /\ UNCHANGED <<cfgVars, ioVars, failedAt, escaped, crashed, thumbFile, chunksDir,
                 encoded, playlist, delVars>>

\* POST /upload with an accepted file and no field but the file
Upload(limit) == UploadAs(PlainForm, limit)

\* POST /upload with an accepted file when uuidv4() returns an id the registry
\* holds. The handler does not look the id up: this.videos.set replaces the
\* record and processVideo starts a job for the id. multer has stored the
\* file under a name of its own. Explored once the earlier job of the id has
\* settled, the position of one job per id being all that pc[id] can hold.
UploadSameId(id, form) ==
  /\ ~crashed
  /\ id \in videos
  /\ pc[id] = "done"
  /\ Count(statusLog[id], "uploading") < MaxSameId
  /\ LET new == [NewVideo(id, form) EXCEPT
                   !.filename = [k |-> "original", n |-> id,
                                 upload |-> Count(statusLog[id], "uploading") + 1],
                   !.createdAt = Now(obj[id].updatedAt),
                   !.updatedAt = Now(obj[id].updatedAt)]
         v == ProcessVideoStart(new)
     IN /\ original' = [original EXCEPT ![id] = TRUE]
        /\ videos' = videos \cup {id}
        /\ obj' = [obj EXCEPT ![id] = v]
        /\ statusLog' = [statusLog EXCEPT ![id] = @ \o <<new.status, v.status>>]
        /\ pc' = [pc EXCEPT ![id] = "ensureDir"]
        /\ calls' = [calls EXCEPT ![id] = <<"ensureDir">>]
        /\ failedAt' = [failedAt EXCEPT ![id] = "none"]
        /\ uploadResp' = [uploadResp EXCEPT ![id] = v.status]
        /\ resp' = [op |-> "upload", id |-> id, code |-> 201, seen |-> v.status,
                    served |-> << >>]
  /\ UNCHANGED <<cfgVars, listIn, nextId, escaped, crashed, thumbFile, chunksDir,
                 encoded, playlist, delVars>>

\* the fileFilter of setupMulter accepts these content types
allowedTypes ==
  {"video/mp4", "video/avi", "video/mov", "video/wmv", "video/flv", "video/webm",
   "video/mkv"}

\* limits.fileSize of setupMulter, in bytes
FileSizeLimit == 500 * 1024 * 1024

\* what upload.single("video") and the first test of the handler make of a
\* request: "nofile" when the form has no video part (multer leaves req.file
\* undefined), "mimetype" when fileFilter calls back with an error, "size" when
\* the part is longer than limits.fileSize, "ok" otherwise
Validate(req) ==
  IF ~req.file THEN "nofile"
  ELSE IF req.mimetype \notin allowedTypes THEN "mimetype"
  ELSE IF req.size > FileSizeLimit THEN "size"
  ELSE "ok"

\* the status of the answer to a refused upload: 400 from the handler for a
\* missing file; an error of multer goes to next(err) and is answered by the
\* error handler of the application
RejectionCode(outcome) == IF outcome = "nofile" THEN 400 ELSE 500

\* POST /upload refused: nothing but the answer changes; seen holds the
\* outcome of the validation
UploadRejected(req) ==
  /\ ~crashed
  /\ Validate(req) /= "ok"
  /\ resp' = [op |-> "upload", id |-> 0, code |-> RejectionCode(Validate(req)),
              seen |-> Validate(req), served |-> << >>]
  /\ UNCHANGED <<cfgVars, listIn, nextId, videos, obj, statusLog, uploadResp, jobVars,
                 fileVars, delVars>>

\* POST /upload with any request
PostUpload(req, limit) ==
  \/ Validate(req) = "ok" /\ Upload(limit)
  \/ UploadRejected(req)

(* --------------------------- processVideo ----------------------------- *)
WithDurationDropped(v) == v

\* video.duration = metadata.duration
WithDuration(v) == [v EXCEPT !.duration = Set]

ErrorVideoRequeue(v) == [v EXCEPT !.status = "uploading", !.updatedAt = Now(@)]

\* the assignments of the catch block of processVideo
ErrorVideo(v) == [v EXCEPT !.status = "error", !.updatedAt = Now(@)]

ReadyVideoDropsDescription(v) ==
  [v EXCEPT !.status = "ready", !.streamingUrls = Set, !.thumbnailUrl = Set,
            !.updatedAt = Now(@), !.description = Undefined]

ReadyVideoNoUrls(v) ==
  [v EXCEPT !.status = "ready", !.thumbnailUrl = Set, !.updatedAt = Now(@)]

\* the assignments that end the try block of processVideo
ReadyVideo(v) ==
  [v EXCEPT !.status = "ready", !.streamingUrls = Set, !.thumbnailUrl = Set,
            !.updatedAt = Now(@)]

\* the catch block of processVideo, entered by the failure of step
JobFailed(id, step) ==
  /\ obj' = [obj EXCEPT ![id] = ErrorVideo(@)]
  /\ statusLog' = [statusLog EXCEPT ![id] = Append(@, ErrorVideo(obj[id]).status)]
  /\ videos' = videos \cup {id}
  /\ pc' = [pc EXCEPT ![id] = "done"]
  /\ failedAt' = [failedAt EXCEPT ![id] = step]

\* the end of the try block of processVideo; v is the Video object as the
\* earlier steps of the job left it
JobReady(id, v) ==
  /\ obj' = [obj EXCEPT ![id] = ReadyVideo(v)]
  /\ statusLog' = [statusLog EXCEPT ![id] = Append(@, ReadyVideo(v).status)]
  /\ videos' = videos \cup {id}
  /\ pc' = [pc EXCEPT ![id] = "done"]
  /\ UNCHANGED failedAt

\* await fs.ensureDir(outputDir) returns; on success generateThumbnail starts
EnsureDirReturn(id, ok) ==
  /\ ~crashed
  /\ pc[id] = "ensureDir"
  /\ IF ok
       THEN /\ chunksDir' = [chunksDir EXCEPT ![id] = TRUE]
            /\ pc' = [pc EXCEPT ![id] = "thumbnail"]
            /\ calls' = [calls EXCEPT ![id] = Append(@, "thumbnail")]
            /\ UNCHANGED <<obj, statusLog, videos, failedAt>>
       ELSE /\ JobFailed(id, "ensureDir")
            /\ UNCHANGED <<chunksDir, calls>>
  /\ UNCHANGED <<cfgVars, ioVars, nextId, uploadResp, escaped, crashed, original,
                 thumbFile, encoded, playlist, delVars>>

\* await generateThumbnail returns; on success getVideoMetadata starts
ThumbnailReturn(id, ok) ==
  /\ ~crashed
  /\ pc[id] = "thumbnail"
  /\ IF ok
       THEN /\ thumbFile' = [thumbFile EXCEPT ![id] = TRUE]
            /\ pc' = [pc EXCEPT ![id] = "probe"]
            /\ calls' = [calls EXCEPT ![id] = Append(@, "probe")]
            /\ UNCHANGED <<obj, statusLog, videos, failedAt>>
       ELSE /\ JobFailed(id, "thumbnail")
            /\ UNCHANGED <<thumbFile, calls>>
  /\ UNCHANGED <<cfgVars, ioVars, nextId, uploadResp, escaped, crashed, original,
                 chunksDir, encoded, playlist, delVars>>

ProbeReturnIgnoresFailure(id, ok) ==
  /\ ~crashed
  /\ pc[id] = "probe"
  /\ failedAt' = IF ok THEN failedAt ELSE [failedAt EXCEPT ![id] = "probe"]
  /\ LET v == IF ok THEN WithDuration(obj[id]) ELSE obj[id]
     IN IF hlsEnabled
          THEN /\ obj' = [obj EXCEPT ![id] = v]
               /\ pc' = [pc EXCEPT ![id] = "hls"]
               /\ calls' = [calls EXCEPT ![id] = Append(@, "hls")]
               /\ UNCHANGED <<statusLog, videos>>
          ELSE /\ obj' = [obj EXCEPT ![id] = ReadyVideo(v)]
               /\ statusLog' = [statusLog EXCEPT ![id] = Append(@, "ready")]
               /\ videos' = videos \cup {id}
               /\ pc' = [pc EXCEPT ![id] = "done"]
               /\ UNCHANGED calls
  /\ UNCHANGED <<cfgVars, ioVars, nextId, uploadResp, escaped, crashed, original,
                 thumbFile, chunksDir, encoded, playlist, delPc, delResp, nDeletes>>

\* await getVideoMetadata returns; on success video.duration is assigned and
\* generateHLS starts when the formats include hls, otherwise the job ends
ProbeReturn(id, ok) ==
  /\ ~crashed
  /\ pc[id] = "probe"
  /\ IF ~ok
       THEN JobFailed(id, "probe") /\ UNCHANGED calls
       ELSE IF hlsEnabled
         THEN /\ obj' = [obj EXCEPT ![id] = WithDuration(@)]
              /\ pc' = [pc EXCEPT ![id] = "hls"]
              /\ calls' = [calls EXCEPT ![id] = Append(@, "hls")]
              /\ UNCHANGED <<statusLog, videos, failedAt>>
         ELSE JobReady(id, WithDuration(obj[id])) /\ UNCHANGED calls
  /\ UNCHANGED <<cfgVars, ioVars, nextId, uploadResp, escaped, crashed, fileVars,
                 delVars>>

\* the throw of fs.writeFileSync inside the 'end' callback of the ffmpeg
\* command: it is raised inside the event emitter, not inside the promise, so
\* neither resolve nor reject runs and processVideo never resumes. Without an
\* uncaughtException handler of the host application the process ends.
ManifestWriteThrows(id) ==
  /\ pc' = [pc EXCEPT ![id] = "hung"]
  /\ failedAt' = [failedAt EXCEPT ![id] = "manifest"]
  /\ escaped' = escaped \cup {id}
  /\ crashed' \in BOOLEAN
  /\ UNCHANGED <<obj, statusLog, videos>>

HLSReturnResolvesOnError(id, ok, part, wrote) ==
  /\ ~crashed
  /\ pc[id] = "hls"
  /\ IF ~ok
       THEN /\ encoded' = [encoded EXCEPT ![id] = IF chunksDir[id] THEN part ELSE {}]
            /\ JobReady(id, obj[id])
            /\ UNCHANGED <<playlist, escaped, crashed, calls>>
       ELSE /\ encoded' = [encoded EXCEPT ![id] =
                              IF chunksDir[id] THEN QualitySet ELSE {}]
            /\ calls' = [calls EXCEPT ![id] = Append(@, "manifest")]
            /\ IF wrote /\ chunksDir[id]
                 THEN /\ playlist' = [playlist EXCEPT ![id] = TRUE]
                      /\ JobReady(id, obj[id])
                      /\ UNCHANGED <<escaped, crashed>>
                 ELSE /\ ManifestWriteThrows(id)
                      /\ UNCHANGED playlist
  /\ UNCHANGED <<cfgVars, ioVars, nextId, uploadResp, original, thumbFile, chunksDir,
                 delPc, delResp, nDeletes>>

\* the ffmpeg command of generateHLS ends. 'error' rejects the promise and
\* leaves whatever renditions ffmpeg had written (part). 'end' means every
\* output was written; generateMasterPlaylist then writes playlist.m3u8
\* (wrote tells whether that write succeeds) and the promise resolves.
HLSReturn(id, ok, part, wrote) ==
  /\ ~crashed
  /\ pc[id] = "hls"
  /\ IF ~ok
       THEN /\ encoded' = [encoded EXCEPT ![id] = IF chunksDir[id] THEN part ELSE {}]
            /\ JobFailed(id, "hls")
            /\ UNCHANGED <<playlist, escaped, crashed, calls>>
       ELSE /\ encoded' = [encoded EXCEPT ![id] =
                              IF chunksDir[id] THEN QualitySet ELSE {}]
            /\ calls' = [calls EXCEPT ![id] = Append(@, "manifest")]
            /\ IF wrote /\ chunksDir[id]
                 THEN /\ playlist' = [playlist EXCEPT ![id] = TRUE]
                      /\ JobReady(id, obj[id])
                      /\ UNCHANGED <<escaped, crashed>>
                 ELSE /\ ManifestWriteThrows(id)
                      /\ UNCHANGED playlist
  /\ UNCHANGED <<cfgVars, ioVars, nextId, uploadResp, original, thumbFile, chunksDir,
                 delVars>>

(* ------------------------------ delete -------------------------------- *)
\* deleteVideoFiles: the next fs.remove it awaits, given the removals already
\* behind it (done) and what fs.existsSync answers now; "reg" when nothing is
\* left to remove and the handler goes on to this.videos.delete
NextRemove(done, o, t, c) ==
  IF done < 1 /\ o THEN "orig"
  ELSE IF done < 2 /\ t THEN "thumb"
  ELSE IF done < 3 /\ c THEN "chunks"
  ELSE "reg"

\* DELETE /videos/:id up to its first await: 404 for an id the registry does
\* not hold, otherwise the first removal of deleteVideoFiles starts. One DELETE
\* per id is served at a time.
DeleteStart(id) ==
  /\ ~crashed
  /\ nDeletes < MaxDeletes
  /\ delPc[id] = "idle"
  /\ nDeletes' = nDeletes + 1
  /\ IF id \notin videos
       THEN /\ delResp' = [delResp EXCEPT ![id] = Append(@, 404)]
            /\ UNCHANGED delPc
       ELSE /\ delPc' = [delPc EXCEPT ![id] =
                           NextRemove(0, original[id], thumbFile[id], chunksDir[id])]
            /\ UNCHANGED delResp
  /\ UNCHANGED <<cfgVars, ioVars, nextId, videos, obj, statusLog, uploadResp, jobVars,
                 fileVars>>

RemoveReturnPropagates(id, ok) ==
  /\ ~crashed
  /\ delPc[id] \in {"orig", "thumb", "chunks"}
  /\ IF ~ok
       THEN /\ delPc' = [delPc EXCEPT ![id] = "idle"]
            /\ delResp' = [delResp EXCEPT ![id] = Append(@, 500)]
            /\ UNCHANGED fileVars
       ELSE LET o == original[id] /\ delPc[id] /= "orig"
                t == thumbFile[id] /\ delPc[id] /= "thumb"
                c == chunksDir[id] /\ delPc[id] /= "chunks"
                done == CASE delPc[id] = "orig" -> 1
                          [] delPc[id] = "thumb" -> 2
                          [] OTHER -> 3
            IN /\ original' = [original EXCEPT ![id] = o]
               /\ thumbFile' = [thumbFile EXCEPT ![id] = t]
               /\ chunksDir' = [chunksDir EXCEPT ![id] = c]
               /\ encoded' = [encoded EXCEPT ![id] = IF c THEN @ ELSE {}]
               /\ playlist' = [playlist EXCEPT ![id] = c /\ @]
               /\ delPc' = [delPc EXCEPT ![id] = NextRemove(done, o, t, c)]
               /\ UNCHANGED delResp
  /\ UNCHANGED <<cfgVars, ioVars, nextId, videos, obj, statusLog, uploadResp, jobVars,
                 nDeletes>>

\* an awaited fs.remove of deleteVideoFiles returns; a failure is caught and
\* logged by deleteVideoFiles, which then returns without the later removals
RemoveReturn(id, ok) ==
  /\ ~crashed
  /\ delPc[id] \in {"orig", "thumb", "chunks"}
  /\ IF ~ok
       THEN /\ delPc' = [delPc EXCEPT ![id] = "reg"]
            /\ UNCHANGED fileVars
       ELSE LET o == original[id] /\ delPc[id] /= "orig"
                t == thumbFile[id] /\ delPc[id] /= "thumb"
                c == chunksDir[id] /\ delPc[id] /= "chunks"
                done == CASE delPc[id] = "orig" -> 1
                          [] delPc[id] = "thumb" -> 2
                          [] OTHER -> 3
            IN /\ original' = [original EXCEPT ![id] = o]
               /\ thumbFile' = [thumbFile EXCEPT ![id] = t]
               /\ chunksDir' = [chunksDir EXCEPT ![id] = c]
               /\ encoded' = [encoded EXCEPT ![id] = IF c THEN @ ELSE {}]
               /\ playlist' = [playlist EXCEPT ![id] = c /\ @]
               /\ delPc' = [delPc EXCEPT ![id] = NextRemove(done, o, t, c)]
  /\ UNCHANGED <<cfgVars, ioVars, nextId, videos, obj, statusLog, uploadResp, jobVars,
                 delResp, nDeletes>>

DeleteFinishKeepsRecord(id) ==
  /\ ~crashed
  /\ delPc[id] = "reg"
  /\ delResp' = [delResp EXCEPT ![id] = Append(@, 200)]
  /\ delPc' = [delPc EXCEPT ![id] = "idle"]
  /\ UNCHANGED <<cfgVars, ioVars, nextId, videos, obj, statusLog, uploadResp, jobVars,
                 fileVars, nDeletes>>

\* the rest of the DELETE handler after await this.deleteVideoFiles(video)
DeleteFinish(id) ==
  /\ ~crashed
  /\ delPc[id] = "reg"
  /\ videos' = videos \ {id}
  /\ delResp' = [delResp EXCEPT ![id] = Append(@, 200)]
  /\ delPc' = [delPc EXCEPT ![id] = "idle"]
  /\ UNCHANGED <<cfgVars, ioVars, nextId, obj, statusLog, uploadResp, jobVars,
                 fileVars, nDeletes>>

(* ----------------------------- manifest ------------------------------ *)
getResolution(quality) ==
  CASE quality = "240p" -> "426x240"
    [] quality = "360p" -> "640x360"
    [] quality = "480p" -> "854x480"
    [] quality = "720p" -> "1280x720"
    [] quality = "1080p" -> "1920x1080"
    [] OTHER -> "640x360"

getBitrateOfDefault(quality) == "800k"

getBitrate(quality) ==
  CASE quality = "240p" -> "400k"
    [] quality = "360p" -> "800k"
    [] quality = "480p" -> "1200k"
    [] quality = "720p" -> "2500k"
    [] quality = "1080p" -> "5000k"
    [] OTHER -> "800k"

getBandwidth(quality) ==
  CASE quality = "240p" -> 500000
    [] quality = "360p" -> 1000000
    [] quality = "480p" -> 1500000
    [] quality = "720p" -> 3000000
    [] quality = "1080p" -> 6000000
    [] OTHER -> 1000000

\* the rendition outputs generateHLS adds to the ffmpeg command, in order
RECURSIVE HLSOutputs(_)
HLSOutputs(qs) ==
  IF qs = << >> THEN << >>
  ELSE << [file |-> Head(qs) \o ".m3u8", size |-> getResolution(Head(qs)),
           bitrate |-> getBitrate(Head(qs))] >> \o HLSOutputs(Tail(qs))

RECURSIVE generateMasterPlaylistKnownOnly(_)
generateMasterPlaylistKnownOnly(qs) ==
  IF qs = << >> THEN << >>
  ELSE (IF Head(qs) \in {"240p", "360p", "480p", "720p", "1080p"}
          THEN << [bandwidth |-> getBandwidth(Head(qs)),
                   resolution |-> getResolution(Head(qs)),
                   uri |-> Head(qs) \o ".m3u8"] >>
          ELSE << >>) \o generateMasterPlaylistKnownOnly(Tail(qs))

\* the #EXT-X-STREAM-INF entries generateMasterPlaylist writes, in order
RECURSIVE generateMasterPlaylist(_)
generateMasterPlaylist(qs) ==
  IF qs = << >> THEN << >>
  ELSE << [bandwidth |-> getBandwidth(Head(qs)),
           resolution |-> getResolution(Head(qs)),
           uri |-> Head(qs) \o ".m3u8"] >> \o generateMasterPlaylist(Tail(qs))

\* the content of chunksPath/<id>/playlist.m3u8 once generateMasterPlaylist
\* has written it
PlaylistContent(id) == IF playlist[id] THEN generateMasterPlaylist(qualities) ELSE << >>

(* ------------------------------- paths -------------------------------- *)
\* a path is the sequence of its components; a component is a name of some
\* kind, numbered where the name depends on a video id or a quality
Comp(kind, n) == [k |-> kind, n |-> n]
UpDir == Comp("..", 0)

\* this.config.storage.videosPath and chunksPath
videosPath == <<Comp("uploads", 0), Comp("videos", 0)>>
chunksPath == <<Comp("uploads", 0), Comp("chunks", 0)>>

\* path.join: the components of both parts, where ".." removes the component
\* before it
RECURSIVE Normalize(_, _)
Normalize(done, rest) ==
  IF rest = << >> THEN done
  ELSE IF Head(rest) = UpDir /\ done /= << >> /\ done[Len(done)] /= UpDir
    THEN Normalize(SubSeq(done, 1, Len(done) - 1), Tail(rest))
    ELSE Normalize(Append(done, Head(rest)), Tail(rest))

PathJoin(base, name) == Normalize(<< >>, base \o name)

\* path.join(chunksPath, id), the output directory of a video
OutputDir(id) == PathJoin(chunksPath, <<Comp("id", id)>>)
OriginalPath(id) == PathJoin(videosPath, <<Comp("original", id)>>)
ThumbnailPath(id) == PathJoin(videosPath, <<Comp("thumbnail", id)>>)
PlaylistPath(id) == PathJoin(OutputDir(id), <<Comp("playlist.m3u8", 0)>>)

\* the files and directories of the store, as the variables describe them
IsFile(p) ==
  \E i \in Ids :
    \/ p = OriginalPath(i) /\ original[i]
    \/ p = ThumbnailPath(i) /\ thumbFile[i]
    \/ p = PlaylistPath(i) /\ playlist[i]
    \/ p = PathJoin(OutputDir(i), <<Comp("segment_000.ts", 0)>>) /\ encoded[i] /= {}
    \/ \E q \in 1..Len(qualities) :
         p = PathJoin(OutputDir(i), <<Comp("quality.m3u8", q)>>) /\ qualities[q] \in encoded[i]

IsDir(p) ==
  \/ p \in {<<Comp("uploads", 0)>>, videosPath, chunksPath}
  \/ \E i \in Ids : p = OutputDir(i) /\ chunksDir[i]

\* fs.existsSync
ExistsSync(p) == IsFile(p) \/ IsDir(p)

(* ---------------------------- GET handlers ---------------------------- *)
\* the status the handler finds for id, "none" when this.videos.get(id) is
\* undefined
StatusOf(id) == IF id \in videos THEN obj[id].status ELSE "none"

\* res.sendFile(path.resolve(p)) once fs.existsSync(p) held: the file, or the
\* error of sending a directory, which reaches the global error handler
SendFile(op, id, p) ==
  IF IsFile(p)
    THEN [op |-> op, id |-> id, code |-> 200, seen |-> StatusOf(id), served |-> p]
    ELSE [op |-> op, id |-> id, code |-> 500, seen |-> StatusOf(id), served |-> << >>]

ErrorResp(op, id, code) ==
  [op |-> op, id |-> id, code |-> code, seen |-> StatusOf(id), served |-> << >>]

\* the answer of GET /stream/:id/playlist.m3u8
ManifestAnswer(id) ==
  IF id \notin videos \/ obj[id].status /= "ready" THEN ErrorResp("manifest", id, 404)
  ELSE IF ~ExistsSync(PlaylistPath(id)) THEN ErrorResp("manifest", id, 404)
  ELSE SendFile("manifest", id, PlaylistPath(id))

SegmentAnswerAnyStatus(id, segment) ==
  LET segmentPath == PathJoin(OutputDir(id), segment)
  IN IF id \notin videos THEN ErrorResp("segment", id, 404)
     ELSE IF ~ExistsSync(segmentPath) THEN ErrorResp("segment", id, 404)
     ELSE SendFile("segment", id, segmentPath)

\* the answer of GET /stream/:id/:segment; segment is the decoded parameter,
\* as the components path.join splits it into
SegmentAnswer(id, segment) ==
  LET segmentPath == PathJoin(OutputDir(id), segment)
  IN IF id \notin videos \/ obj[id].status /= "ready" THEN ErrorResp("segment", id, 404)
     ELSE IF ~ExistsSync(segmentPath) THEN ErrorResp("segment", id, 404)
     ELSE SendFile("segment", id, segmentPath)

\* GET /stream/:id/playlist.m3u8
GetManifest(id) ==
  /\ ~crashed
  /\ resp' = ManifestAnswer(id)
  /\ UNCHANGED <<cfgVars, listIn, nextId, videos, obj, statusLog, uploadResp,
                 jobVars, fileVars, delVars>>

\* GET /stream/:id/:segment
GetSegment(id, segment) ==
  /\ ~crashed
  /\ resp' = SegmentAnswer(id, segment)
  /\ UNCHANGED <<cfgVars, listIn, nextId, videos, obj, statusLog, uploadResp,
                 jobVars, fileVars, delVars>>

\* the answer of GET /videos/:id; the body of a 200 answer is the record
VideoAnswer(id) ==
  IF id \notin videos THEN ErrorResp("video", id, 404)
  ELSE [op |-> "video", id |-> id, code |-> 200, seen |-> StatusOf(id),
        served |-> << >>, body |-> obj[id]]

\* the answer of GET /thumbnails/:id
ThumbnailAnswer(id) ==
  IF id \notin videos THEN ErrorResp("thumbnail", id, 404)
  ELSE IF ~ExistsSync(ThumbnailPath(id)) THEN ErrorResp("thumbnail", id, 404)
  ELSE SendFile("thumbnail", id, ThumbnailPath(id))

\* GET /videos/:id
GetVideo(id) ==
  /\ ~crashed
  /\ resp' = VideoAnswer(id)
  /\ UNCHANGED <<cfgVars, listIn, nextId, videos, obj, statusLog, uploadResp,
                 jobVars, fileVars, delVars>>

\* GET /thumbnails/:id
GetThumbnail(id) ==
  /\ ~crashed
  /\ resp' = ThumbnailAnswer(id)
  /\ UNCHANGED <<cfgVars, listIn, nextId, videos, obj, statusLog, uploadResp,
                 jobVars, fileVars, delVars>>

\* the segment names requested of video id: a segment, a rendition playlist,
\* a name that does not exist, and names that climb out of the directory to
\* the original upload and to another video's output
SegmentNames(id) ==
  { <<Comp("segment_000.ts", 0)>>, <<Comp("quality.m3u8", 1)>>,
    <<Comp("missing", 0)>>,
    <<UpDir, UpDir, Comp("videos", 0), Comp("original", id)>> }
  \cup { <<UpDir, Comp("id", j), Comp("playlist.m3u8", 0)>> : j \in Ids \ {id} }

(* ----------------------------- GET /videos ----------------------------- *)
\* an optional number: a query parameter that may be absent, a JSON value that
\* may be null
Absent == << >>

Num(n) == <<n>>

\* Number(x) of a numeric query parameter, x being the default when the
\* parameter is absent
NumberOr(x, default) == IF x = Absent THEN default ELSE x[1]

Min(a, b) == IF a < b THEN a ELSE b

Max(a, b) == IF a > b THEN a ELSE b

\* Array.prototype.slice(start, end) for integer arguments: a negative index
\* counts from the end, both are clamped to the array
Slice(s, start, end) ==
  LET len == Len(s)
      k == IF start < 0 THEN Max(len + start, 0) ELSE Min(start, len)
      final == IF end < 0 THEN Max(len + end, 0) ELSE Min(end, len)
  IN SubSeq(s, k + 1, final)

\* Math.ceil(a / b) for an integer a >= 0 and an integer b, as JSON shows it:
\* Infinity and NaN are written as null
CeilDiv(a, b) ==
  IF b = 0 THEN Absent
  ELSE IF b > 0 THEN Num((a + b - 1) \div b)
  ELSE Num(0 - (a \div (0 - b)))

\* the two filters of the handler
FilterVideos(all, q) ==
  LET byUser == IF Truthy(q.userId)
                  THEN SelectSeq(all, LAMBDA v : v.userId = q.userId) ELSE all
  IN IF Truthy(q.status)
       THEN SelectSeq(byUser, LAMBDA v : v.status = q.status) ELSE byUser

\* the body of the answer of GET /videos to query q when the registry holds
\* the records all, in insertion order
ListAnswer(all, q) ==
  LET filtered == FilterVideos(all, q)
      page == NumberOr(q.page, 1)
      limit == NumberOr(q.limit, 10)
      startIndex == (page - 1) * limit
      endIndex == startIndex + limit
  IN [videos |-> Slice(filtered, startIndex, endIndex),
      pagination |-> [page |-> page, limit |-> limit, total |-> Len(filtered),
                      pages |-> CeilDiv(Len(filtered), limit)]]

\* GET /videos
ListVideos(q) ==
  /\ ~crashed
  /\ resp' = [op |-> "list", id |-> 0, code |-> 200, seen |-> "none", served |-> << >>,
              query |-> q, body |-> ListAnswer(listIn, q)]
  /\ UNCHANGED <<cfgVars, listIn, nextId, videos, obj, statusLog, uploadResp, jobVars,
                 fileVars, delVars>>

\* Array.from(this.videos.values()) of a Map no key was ever deleted from:
\* the records in the order of their first set, which is that of the ids
RegistryValues == [k \in 1..nextId |-> obj[k]]

\* GET /videos on the registry itself, while no key was deleted from it
GetVideos(q) ==
  /\ ~crashed
  /\ videos = 1..nextId
  /\ resp' = [op |-> "list", id |-> 0, code |-> 200, seen |-> "none", served |-> << >>,
              query |-> q, body |-> ListAnswer(RegistryValues, q)]
  /\ UNCHANGED <<cfgVars, listIn, nextId, videos, obj, statusLog, uploadResp, jobVars,
                 fileVars, delVars>>

(* --------------------------- specification ---------------------------- *)
JobStep(id) ==
  \/ \E ok \in BOOLEAN : EnsureDirReturn(id, ok)
  \/ \E ok \in BOOLEAN : ThumbnailReturn(id, ok)
  \/ \E ok \in BOOLEAN : ProbeReturn(id, ok)
  \/ \E ok \in BOOLEAN, part \in PartialOutputs, wrote \in BOOLEAN :
       HLSReturn(id, ok, part, wrote)

\* DELETE requests name an uploaded id or an id the registry does not know
DeleteIds == 1..MaxVideos

Next ==
  \/ Upload(MaxVideos)
  \/ \E id \in Ids : JobStep(id)
  \/ \E id \in DeleteIds : DeleteStart(id)
  \/ \E id \in DeleteIds, ok \in BOOLEAN : RemoveReturn(id, ok)
  \/ \E id \in DeleteIds : DeleteFinish(id)

Spec == Init /\ [][Next]_vars

\* a burst of MaxBurst accepted uploads and their jobs, without deletes
NextBurst ==
  \/ Upload(MaxBurst)
  \/ \E id \in Ids : JobStep(id)

BurstSpec == Init /\ [][NextBurst]_vars

\* the service with its delivery endpoints: uploads, jobs, deletes and the
\* GET requests for manifests and segments
NextRead ==
  \/ Upload(MaxReadVideos)
  \/ \E id \in Ids : JobStep(id)
  \/ \E id \in DeleteIds : DeleteStart(id)
  \/ \E id \in DeleteIds, ok \in BOOLEAN : RemoveReturn(id, ok)
  \/ \E id \in DeleteIds : DeleteFinish(id)
  \/ \E id \in Ids : GetManifest(id)
  \/ \E id \in Ids : \E segment \in SegmentNames(id) : GetSegment(id, segment)

ReadSpec == Init /\ [][NextRead]_vars

\* the upload requests explored: with and without a file, content types in and
\* out of the list, sizes around the limit
UploadRequests ==
  [file : BOOLEAN, mimetype : {"video/mp4", "video/mkv", "video/x-matroska", "image/png"},
   size : {1, FileSizeLimit, FileSizeLimit + 1}]

\* uploads of any kind and their jobs
NextUpload ==
  \/ \E req \in UploadRequests : PostUpload(req, MaxUploadVideos)
  \/ \E id \in Ids : JobStep(id)

UploadSpec == Init /\ [][NextUpload]_vars

\* the registries explored for GET /videos: up to MaxListed records of two
\* users, in processing or ready, the k-th inserted with id k
ListInputs ==
  UNION { { [k \in 1..n |-> [id |-> k, userId |-> f[k].userId, status |-> f[k].status]]
            : f \in [1..n -> [userId : {"u1", "u2"},
                              status : {"processing", "ready"}]] }
          : n \in 0..MaxListed }

\* the queries explored: each filter absent or given; page and limit
\* absent or a small integer
ListQueries ==
  [userId : {Undefined, "u1"}, status : {Undefined, "ready"},
   page : {Absent} \cup {Num(n) : n \in 0..MaxPage},
   limit : {Absent} \cup {Num(n) : n \in -1..MaxLimit}]

\* the list handler applied to any registry
InitList ==
  /\ Start
  /\ qualities = Qualities
  /\ listIn \in ListInputs

NextList == \E q \in ListQueries : ListVideos(q)

ListSpec == InitList /\ [][NextList]_vars

\* the forms of the uploads of RecordSpec: the file alone, or with a title, a
\* description and an authenticated user
RecordForms ==
  { PlainForm,
    [title |-> "holiday", description |-> "family", user |-> "u1",
     originalname |-> "clip.mp4", size |-> 1] }

\* the list queries of RecordSpec
RecordQueries ==
  [userId : {Undefined, "u1"}, status : {Undefined, "ready"},
   page : {Absent}, limit : {Absent, Num(1)}]

\* uploads with their fields, jobs, and every GET request of the router
NextRecord ==
  \/ \E form \in RecordForms : UploadAs(form, MaxRecordVideos)
  \/ \E id \in Ids : JobStep(id)
  \/ \E id \in 1..MaxRecordVideos : GetVideo(id)
  \/ \E q \in RecordQueries : GetVideos(q)
  \/ \E id \in 1..MaxRecordVideos : GetManifest(id)
  \/ \E id \in 1..MaxRecordVideos :
       GetSegment(id, <<Comp("segment_000.ts", 0)>>)
  \/ \E id \in 1..MaxRecordVideos : GetThumbnail(id)

RecordSpec == Init /\ [][NextRecord]_vars

\* uploads, their jobs, and uploads for which uuidv4() returns an id again
NextSameId ==
  \/ Upload(MaxSameIdVideos)
  \/ \E id \in Ids : JobStep(id)
  \/ \E id \in Ids, form \in RecordForms : UploadSameId(id, form)

SameIdSpec == Init /\ [][NextSameId]_vars

\* the quality names a deployment may configure: the five of the tables and
\* one the tables do not know
TierNames == {"240p", "360p", "480p", "720p", "1080p", "4K"}

\* the configured qualities: up to MaxQualities different names in any order
QualityConfigs ==
  UNION { {q \in [1..n -> TierNames] : \A a, b \in 1..n : a /= b => q[a] /= q[b]}
          : n \in 0..MaxQualities }

\* the service under any configuration of qualities
InitAnyQualities ==
  /\ Start
  /\ qualities \in QualityConfigs
  /\ listIn = << >>

\* one upload and its job
NextManifest ==
  \/ Upload(MaxManifestVideos)
  \/ \E id \in Ids : JobStep(id)

ManifestSpec == InitAnyQualities /\ [][NextManifest]_vars

\* every call of a job that is awaited returns: the engine and the file
\* system answer each pending call with success or failure
FairSpec == Spec /\ \A id \in Ids : WF_vars(JobStep(id))

(* ------------------------------ helpers ------------------------------- *)
IsPrefix(s, t) == Len(s) <= Len(t) /\ \A k \in 1..Len(s) : s[k] = t[k]

Last(s) == s[Len(s)]

\* a DELETE of id has answered success
DeleteAnswered(id) == \E k \in 1..Len(delResp[id]) : delResp[id][k] = 200

\* the job of id is running: started and neither settled nor hung
InFlight(id) == pc[id] \in {"ensureDir", "thumbnail", "probe", "hls"}

StatusPaths ==
  { <<"uploading", "processing", "ready">>, <<"uploading", "processing", "error">> }

(* ------------------------------- claims ------------------------------- *)
\* C1: the values assigned to a record's status follow
\* uploading -> processing -> ready or uploading -> processing -> error, under
\* every interleaving of uploads, job steps and deletes: status never returns
\* to uploading and never changes after ready or error; the record holds the
\* last value assigned.
C1_StatusFollowsStateMachine ==
  \A id \in Ids :
    /\ \E path \in StatusPaths : IsPrefix(statusLog[id], path)
    /\ statusLog[id] /= << >> => obj[id].status = Last(statusLog[id])
    /\ statusLog[id] = << >> => obj[id].status = "none" /\ id \notin videos

\* a record reached a terminal status while a DELETE of it was served
C1_Witness ==
  \E id \in Ids : Len(statusLog[id]) = 3 /\ delResp[id] /= << >>

\* C2: for every record of the registry, streamingUrls.hls is set exactly
\* when status is ready; a record whose job failed in the engine is in error
\* without it.
C2_ManifestRefIffReady ==
  \A id \in videos :
    /\ obj[id].streamingUrls = Set <=> obj[id].status = "ready"
    /\ failedAt[id] \in {"thumbnail", "probe", "hls"} =>
         obj[id].status = "error" /\ obj[id].streamingUrls = Undefined

\* the registry holds a ready record with the reference and a record whose
\* encode failed
C2_Witness ==
  \E i, j \in videos :
    /\ obj[i].status = "ready" /\ obj[i].streamingUrls = Set
    /\ failedAt[j] = "hls" /\ obj[j].status = "error"

\* C3: the number of videos in processing whose job is in flight never
\* exceeds the configured transcoding.concurrent.
C3_PoolBounded ==
  Cardinality({id \in Ids : obj[id].status = "processing" /\ InFlight(id)}) <= Concurrent

\* C4: once a DELETE of id has answered success the registry holds no record
\* for id, in that state and in every later one.
C4_DeletedStaysDeleted ==
  \A id \in Ids : DeleteAnswered(id) => id \notin videos

\* C5: a job whose only failure is the thumbnail extraction ends ready, with
\* the manifest reference and without a thumbnail reference.
C5_ThumbnailFailureNonFatal ==
  \A id \in Ids :
    pc[id] = "done" /\ failedAt[id] = "thumbnail" =>
      /\ obj[id].status = "ready"
      /\ obj[id].streamingUrls = Set
      /\ obj[id].thumbnailUrl = Undefined

\* C6: a job whose probe failed went from processing straight to error, has
\* started neither the encode nor the manifest assembly, has written no master
\* manifest and has no manifest reference.
C6_ProbeFailureAborts ==
  \A id \in Ids :
    failedAt[id] = "probe" =>
      /\ pc[id] = "done"
      /\ statusLog[id] = <<"uploading", "processing", "error">>
      /\ obj[id].status = "error"
      /\ \A k \in 1..Len(calls[id]) : calls[id][k] \notin {"hls", "manifest"}
      /\ encoded[id] = {}
      /\ ~playlist[id]
      /\ obj[id].streamingUrls = Undefined

\* the probe of some job has failed
C6_Witness ==
  \E id \in Ids : failedAt[id] = "probe" /\ Last(calls[id]) = "probe"

\* C7: a job whose encode failed ends in error, and a ready record's job had
\* no failed call; while its output directory exists, every configured
\* rendition is in it.
C7_NoPartialReady ==
  \A id \in Ids :
    /\ failedAt[id] = "hls" => obj[id].status = "error" /\ pc[id] = "done"
    /\ obj[id].status = "ready" =>
         /\ failedAt[id] = "none"
         /\ hlsEnabled /\ chunksDir[id] => encoded[id] = QualitySet

\* one job ended ready with every rendition and another failed in the encode
\* leaving part of them
C7_Witness ==
  \E i, j \in Ids :
    /\ obj[i].status = "ready" /\ encoded[i] = QualitySet
    /\ failedAt[j] = "hls" /\ encoded[j] \notin {{}, QualitySet}

\* C8: a step of the job of one video leaves the record of every other video
\* as it was, and no failure of a job leaves the job: none is thrown outside
\* processVideo and none ends the process the other jobs run in.
C8_JobsIndependent ==
  [][ /\ \A i \in Ids : JobStep(i) =>
           \A j \in Ids \ {i} :
             obj'[j] = obj[j] /\ (j \in videos' <=> j \in videos) /\ pc'[j] = pc[j]
      /\ escaped' = {}
      /\ ~crashed' ]_vars

\* C9: every accepted upload that is not deleted eventually reaches ready or
\* error, given that every awaited call of its job returns.
C9_EventuallyTerminal ==
  \A id \in Ids :
    (id \in videos /\ obj[id].status \in {"uploading", "processing"})
      ~> (obj[id].status \in {"ready", "error"} \/ id \notin videos)

\* C10: the answer of an accepted upload reports status uploading for a record
\* created with status uploading under an id not handed out before.
C10_UploadReportsUploading ==
  \A id \in Ids :
    uploadResp[id] /= "none" =>
      /\ id <= nextId
      /\ statusLog[id][1] = "uploading"
      /\ uploadResp[id] = "uploading"

\* C11: a manifest request that finds the video in uploading or processing is
\* answered NotReady: a 400-class code other than 404, and no content.
C11_ManifestNotReady ==
  resp.op = "manifest" /\ resp.seen \in {"uploading", "processing"} =>
    /\ resp.code \in 400..499
    /\ resp.code /= 404
    /\ resp.served = << >>

\* C12: a segment request is answered with a 400 or 404 error and no content,
\* or with a file that lies under the output directory of the video it names.
C12_SegmentStaysInOutputDir ==
  resp.op = "segment" =>
    \/ resp.code \in {400, 404} /\ resp.served = << >>
    \/ /\ resp.code = 200
       /\ IsPrefix(OutputDir(resp.id), resp.served)
       /\ Len(resp.served) > Len(OutputDir(resp.id))

\* C13: a manifest or segment request serves content only when it finds the
\* video in the registry with status ready; for an unknown id and for a record
\* in uploading, processing or error the answer is an error without content.
C13_ContentOnlyWhenReady ==
  resp.op \in {"manifest", "segment"} =>
    /\ resp.code = 200 \/ resp.served /= << >> => resp.seen = "ready"
    /\ resp.seen /= "ready" => resp.code >= 400 /\ resp.served = << >>

\* a manifest or segment request for a record in processing or error was
\* refused
C13_Witness ==
  /\ resp.op \in {"manifest", "segment"}
  /\ resp.seen \in {"processing", "error"}
  /\ resp.code = 404
  /\ resp.id \in videos

\* C14: the master manifest of a ready video lists its renditions in
\* ascending order of bandwidth, whatever the configured order of qualities.
C14_ManifestAscending ==
  \A id \in Ids :
    obj[id].status = "ready" /\ playlist[id] =>
      \A a, b \in 1..Len(PlaylistContent(id)) :
        a < b => PlaylistContent(id)[a].bandwidth <= PlaylistContent(id)[b].bandwidth

\* C15: the master manifest of a ready video has one entry per configured
\* quality and no other: the entries refer to the rendition playlists the
\* encode was given, each with the resolution its rendition was encoded at and
\* the bandwidth of its quality.
C15_ManifestListsConfiguredTiers ==
  \A id \in Ids :
    obj[id].status = "ready" /\ playlist[id] =>
      LET m == PlaylistContent(id)
          out == HLSOutputs(qualities)
      IN /\ Len(m) = Len(qualities)
         /\ {m[k].uri : k \in 1..Len(m)} = {q \o ".m3u8" : q \in encoded[id]}
         /\ \A q \in QualitySet :
              Cardinality({k \in 1..Len(m) : m[k].uri = q \o ".m3u8"}) = 1
         /\ \A k \in 1..Len(m) :
              /\ m[k].uri = out[k].file
              /\ m[k].resolution = out[k].size
              /\ m[k].bandwidth = getBandwidth(qualities[k])

\* a video is ready with its manifest under a configuration of several
\* qualities, one of them unknown to the tables
C15_Witness ==
  \E id \in Ids :
    /\ obj[id].status = "ready" /\ playlist[id]
    /\ Len(qualities) > 1
    /\ "4K" \in QualitySet

\* C16: a DELETE that found the record never answers anything but success,
\* whatever its removals did, and the step that answers leaves the registry
\* without the record.
C16_DeleteSucceedsDespiteFailures ==
  [][\A id \in Ids :
       delPc[id] /= "idle" =>
         /\ delResp'[id] \in {delResp[id], Append(delResp[id], 200)}
         /\ delPc'[id] = "idle" =>
              /\ delResp'[id] = Append(delResp[id], 200)
              /\ id \notin videos']_vars

\* a DELETE answered success and removed the record although the removal of
\* the original upload failed: the file is still there
C16_Witness ==
  \E id \in Ids : DeleteAnswered(id) /\ id \notin videos /\ original[id]

\* C17: every answer of a DELETE is success or not found, success whenever the
\* registry held the record, and the step that answers leaves the registry
\* without a record for the id; so the second of two DELETEs in sequence
\* answers success or not found, never a server error.
C17_SecondDeleteHarmless ==
  [][\A id \in Ids :
       delResp'[id] /= delResp[id] =>
         /\ Len(delResp'[id]) = Len(delResp[id]) + 1
         /\ Last(delResp'[id]) \in {200, 404}
         /\ id \in videos => Last(delResp'[id]) = 200
         /\ id \notin videos']_vars

\* the same video was deleted twice in sequence: success, then not found, with
\* its derived files gone before the second DELETE
C17_Witness ==
  \E id \in Ids :
    /\ delResp[id] = <<200, 404>>
    /\ ~chunksDir[id] /\ ~thumbFile[id]
    /\ id \notin videos

\* C18: a record in uploading or processing has its original upload in the
\* store.
C18_SourceKeptWhileProcessing ==
  \A id \in videos :
    obj[id].status \in {"uploading", "processing"} => original[id]

\* C19: the answer to a refused upload is a client error, and the step that
\* refuses changes neither the registry nor any job.
C19_RejectedUploadIsClientError ==
  [][resp'.op = "upload" /\ resp' /= resp =>
       /\ resp'.code \in 400..499
       /\ videos' = videos /\ obj' = obj /\ nextId' = nextId
       /\ pc' = pc /\ calls' = calls]_vars

\* the records of listIn that match every filter the query supplies
Matching(q) ==
  SelectSeq(listIn, LAMBDA v :
    /\ q.userId /= Undefined => v.userId = q.userId
    /\ q.status /= Undefined => v.status = q.status)

\* the positions (page-1)*pageSize .. page*pageSize-1 of s, counted from 0
PageOf(s, page, pageSize) ==
  SubSeq(s, Max((page - 1) * pageSize + 1, 1), Min(page * pageSize, Len(s)))

Range(s) == {s[k] : k \in 1..Len(s)}

\* p is the least integer that is at least t / s
IsCeil(p, t, s) ==
  IF s > 0 THEN p * s >= t /\ (p - 1) * s < t
  ELSE IF s < 0 THEN p * s <= t /\ (p - 1) * s > t
  ELSE FALSE

\* the statement of C20 for one answer of GET /videos
ListAnswerCorrect ==
  LET q == resp.query
      body == resp.body
      page == body.pagination.page
      pageSize == body.pagination.limit
      total == body.pagination.total
      matching == Matching(q)
  IN /\ Range(body.videos) \subseteq Range(matching)
     /\ total = Len(matching)
     /\ body.pagination.pages /= Absent
     /\ LET totalPages == body.pagination.pages[1]
        IN /\ IsCeil(totalPages, total, pageSize)
           /\ \A k \in 1..Len(matching) :
                Cardinality({p \in 1..totalPages :
                  matching[k] \in
                    Range(ListAnswer(listIn, [q EXCEPT !.page = Num(p)]).videos)}) = 1
     /\ body.videos = PageOf(matching, page, pageSize)

\* C20: every answer of GET /videos holds only records that match every
\* supplied filter, reports total as the number of matching records and
\* totalPages as ceil(total / pageSize), holds the records at positions
\* (page-1)*pageSize .. page*pageSize-1 of the matching sequence, and the pages
\* 1..totalPages hold each matching record exactly once.
C20_ListPagesPartitionMatches ==
  resp.op = "list" => ListAnswerCorrect

\* the same for the requests with page >= 1 and pageSize >= 1
C20_ForPositivePageAndSize ==
  resp.op = "list" /\ resp.body.pagination.page >= 1 /\ resp.body.pagination.limit >= 1
    => ListAnswerCorrect

\* C21: the records of an answer of GET /videos are in descending order of
\* creation: of two records the one created later comes first. The k-th
\* record of listIn was created k-th and has id k.
C21_ListNewestFirst ==
  resp.op = "list" =>
    \A a, b \in 1..Len(resp.body.videos) :
      a < b => resp.body.videos[a].id > resp.body.videos[b].id

\* C22: the page size asked for is clamped to a fixed maximum. A maximum that
\* clamps any of the page sizes asked for is below the largest of them,
\* MaxLimit, so no answer to a request that names its page size holds MaxLimit
\* records.
C22_PageSizeClamped ==
  resp.op = "list" /\ resp.query.limit /= Absent =>
    Len(resp.body.videos) < MaxLimit

\* the place of a step in the order probe, thumbnail, encode, manifest
StepRank(step) ==
  CASE step = "probe" -> 1
    [] step = "thumbnail" -> 2
    [] step = "hls" -> 3
    [] step = "manifest" -> 4
    [] OTHER -> 0

\* C23: the steps a job has started are in the order probe, thumbnail,
\* rendition encodes, manifest assembly, and the thumbnail step is not started
\* before the probe.
C23_StepsInSpecifiedOrder ==
  \A id \in Ids :
    /\ \A a, b \in 1..Len(calls[id]) :
         a < b /\ StepRank(calls[id][a]) > 0 /\ StepRank(calls[id][b]) > 0 =>
           StepRank(calls[id][a]) < StepRank(calls[id][b])
    /\ "thumbnail" \in Range(calls[id]) => "probe" \in Range(calls[id])

\* the table of C26: resolution and bitrate of the four named tiers, the
\* default for every other name
ClaimedParams(quality) ==
  CASE quality = "360p" -> <<"640x360", "800k">>
    [] quality = "480p" -> <<"854x480", "1200k">>
    [] quality = "720p" -> <<"1280x720", "2500k">>
    [] quality = "1080p" -> <<"1920x1080", "5000k">>
    [] OTHER -> <<"640x360", "800k">>

\* the same table with the tier 240p
AmendedParams(quality) ==
  IF quality = "240p" THEN <<"426x240", "400k">> ELSE ClaimedParams(quality)

NotDeleted(id) == delPc[id] = "idle" /\ ~DeleteAnswered(id)

\* C27: the master manifest of a ready record that no DELETE has touched is in
\* the store, and a manifest request that found such a record was answered
\* with the file, under every configuration of formats.
C27_ReadyHasManifest ==
  /\ \A id \in videos :
       obj[id].status = "ready" /\ NotDeleted(id) => playlist[id]
  /\ resp.op = "manifest" /\ resp.seen = "ready" /\ NotDeleted(resp.id) =>
       resp.code = 200 /\ resp.served = PlaylistPath(resp.id)

ProbeSucceeded(id) ==
  /\ "probe" \in Range(calls[id])
  /\ pc[id] /= "probe"
  /\ failedAt[id] /= "probe"

\* C30: a record has a duration exactly when the probe of its job has
\* succeeded: none while uploading, none on an error record whose job failed
\* at or before the probe, one on every ready record.
C30_DurationIffProbed ==
  \A id \in Ids :
    /\ obj[id].duration = Set <=> ProbeSucceeded(id)
    /\ obj[id].status = "uploading" => obj[id].duration = Undefined
    /\ obj[id].status = "error" /\ failedAt[id] \in {"ensureDir", "thumbnail", "probe"} =>
         obj[id].duration = Undefined
    /\ obj[id].status = "ready" => obj[id].duration = Set

\* one record is in error by a failed probe and has no duration, another is
\* ready and has one
C30_Witness ==
  \E a, b \in Ids :
    /\ obj[a].status = "error" /\ failedAt[a] = "probe" /\ obj[a].duration = Undefined
    /\ obj[b].status = "ready" /\ obj[b].duration = Set

\* C24: every step that changes a stored record advances its updatedAt, and
\* updatedAt never decreases.
C24_UpdatedAtBumped ==
  [][\A id \in Ids :
       /\ obj'[id] /= obj[id] => obj'[id].updatedAt > obj[id].updatedAt
       /\ obj'[id].updatedAt >= obj[id].updatedAt]_vars

\* the fields of a record that identify it and its source
Identity(v) ==
  [id |-> v.id, userId |-> v.userId, title |-> v.title, description |-> v.description,
   filename |-> v.filename, size |-> v.size, createdAt |-> v.createdAt]

\* C29: once a record is created no step changes its id, userId, title,
\* description, filename, size or createdAt, and a step that answers a GET
\* request changes nothing in the registry.
C29_IdentityFieldsKept ==
  [][/\ \A id \in Ids :
          obj[id].status /= "none" => Identity(obj'[id]) = Identity(obj[id])
     /\ resp' /= resp /\ resp'.op \in {"video", "list", "manifest", "segment", "thumbnail"} =>
          videos' = videos /\ obj' = obj]_vars

\* GET /videos/:id answered with a ready record that still has the title,
\* description and user of its upload
C29_Witness ==
  /\ resp.op = "video" /\ resp.code = 200
  /\ resp.body.status = "ready"
  /\ resp.body.title = "holiday" /\ resp.body.description = "family"
  /\ resp.body.userId = "u1" /\ resp.body.id = resp.id

\* C25: an upload whose id the registry already holds is refused with a
\* client error (DuplicateId) and leaves the record of that id as it was.
C25_DuplicateIdRefused ==
  [][resp' /= resp /\ resp'.op = "upload" /\ resp'.id \in videos =>
       /\ resp'.code \in 400..499
       /\ obj'[resp'.id] = obj[resp'.id]]_vars
====
